---- MODULE Spec2Model ----
(***************************************************************************)
(* Cost-volume-profit analyzer (src/financial_analysis.py) as a state      *)
(* machine: a caller picks a product list and a fixed-cost figure,         *)
(* constructs a FinancialAnalyzer and calls its query methods.             *)
(*                                                                         *)
(* Numbers.  Prices, costs, quantities and every column that is a sum or   *)
(* product of them are integers here.  A value that comes out of a         *)
(* division is a Num: an exact fraction n/d in lowest terms, or one of the *)
(* IEEE-754 specials the pandas/numpy division produces (n/0 with n # 0 is *)
(* an infinity, 0/0 is NaN).  float64 rounding and the sign of zero are    *)
(* not modelled.                                                           *)
(***************************************************************************)
EXTENDS Integers, Sequences, FiniteSets, TLC

VARIABLES
    pc,             \* "new": not constructed; "ready"; "returned": a query has returned
    products_data,  \* the caller's list of product dicts
    fixed_costs,    \* the caller's fixed-cost number
    analyzer,       \* the FinancialAnalyzer object (None before construction)
    call,           \* the query that has just returned: [op, args, ret]
    first,          \* an earlier call kept for comparison: [op, args, ret]
    session_state   \* st.session_state: the cached combo and simulation results

vars == <<pc, products_data, fixed_costs, analyzer, call, first, session_state>>

---------------------------------------------------------------------------
(* Bounds of the model *)

MaxProducts == 2
MaxPrice == 2
MaxCost == 1
MaxQuantity == 2
MaxFixedCosts == 2
MaxNames == 2
MaxNegative == 1
MaxMixProducts == 4
MaxFileRows == 2
MaxManual == 2

---------------------------------------------------------------------------
(* float64 arithmetic *)

Abs(x) == IF x < 0 THEN -x ELSE x

Sgn(x) == IF x < 0 THEN -1 ELSE IF x > 0 THEN 1 ELSE 0

RECURSIVE GCD(_, _)
GCD(a, b) == IF b = 0 THEN a ELSE GCD(b, a % b)

\* the fraction n/d, d # 0, in lowest terms with a positive denominator
Norm(n, d) ==
    LET g == GCD(Abs(n), Abs(d))
        s == IF d < 0 THEN -1 ELSE 1
    IN  [k |-> "fin", n |-> (s * n) \div g, d |-> (s * d) \div g]

NaN == [k |-> "nan", n |-> 0, d |-> 0]
PosInf == [k |-> "inf", n |-> 1, d |-> 0]
NegInf == [k |-> "inf", n |-> -1, d |-> 0]
Inf(s) == IF s < 0 THEN NegInf ELSE PosInf

\* an integer as a float
I(x) == [k |-> "fin", n |-> x, d |-> 1]

IsNaN(a) == a.k = "nan"
IsFinite(a) == a.k = "fin"
IsInf(a) == a.k = "inf"

FNeg(a) == IF IsFinite(a) \/ IsInf(a) THEN [a EXCEPT !.n = -a.n] ELSE a

FAdd(a, b) ==
    IF IsNaN(a) \/ IsNaN(b) THEN NaN
    ELSE IF IsInf(a) /\ IsInf(b) THEN (IF a.n = b.n THEN a ELSE NaN)
    ELSE IF IsInf(a) THEN a
    ELSE IF IsInf(b) THEN b
    ELSE Norm(a.n * b.d + b.n * a.d, a.d * b.d)

FSub(a, b) == FAdd(a, FNeg(b))

FMul(a, b) ==
    IF IsNaN(a) \/ IsNaN(b) THEN NaN
    ELSE IF IsInf(a) \/ IsInf(b)
         THEN (IF a.n = 0 \/ b.n = 0 THEN NaN ELSE Inf(Sgn(a.n) * Sgn(b.n)))
    ELSE Norm(a.n * b.n, a.d * b.d)

\* IEEE division: x/0 is an infinity of x's sign, 0/0 and inf/inf are NaN
FDiv(a, b) ==
    IF IsNaN(a) \/ IsNaN(b) THEN NaN
    ELSE IF IsInf(a) THEN (IF IsInf(b) THEN NaN
                           ELSE Inf(Sgn(a.n) * (IF b.n < 0 THEN -1 ELSE 1)))
    ELSE IF IsInf(b) THEN I(0)
    ELSE IF b.n = 0 THEN (IF a.n = 0 THEN NaN ELSE Inf(Sgn(a.n)))
    ELSE Norm(a.n * b.d, a.d * b.n)

\* a < b; every comparison with NaN is false
FLt(a, b) ==
    IF IsNaN(a) \/ IsNaN(b) THEN FALSE
    ELSE IF IsInf(a) THEN a.n < 0 /\ b # a
    ELSE IF IsInf(b) THEN b.n > 0
    ELSE a.n * b.d < b.n * a.d

FGt(a, b) == FLt(b, a)

FEq(a, b) == ~IsNaN(a) /\ ~IsNaN(b) /\ a = b

RECURSIVE SumInt(_)
SumInt(s) == IF s = <<>> THEN 0 ELSE Head(s) + SumInt(Tail(s))

RECURSIVE FSum(_)
FSum(s) == IF s = <<>> THEN I(0) ELSE FAdd(Head(s), FSum(Tail(s)))

---------------------------------------------------------------------------
(* pandas helpers *)

None == [k |-> "None"]

\* df[c]: one column of a table
Col(df, c) == [i \in 1..Len(df) |-> df[i][c]]

\* Series.fillna(0): NaN becomes 0, an infinity stays
fillna0(x) == IF IsNaN(x) THEN I(0) ELSE x

---------------------------------------------------------------------------
(* FinancialAnalyzer: construction *)

\* the five derived columns of one row
MetricsOfRow(r) ==
    LET contribution_margin == r.price - r.cost IN
    [name |-> r.name, price |-> r.price, cost |-> r.cost, quantity |-> r.quantity,
     contribution_margin |-> contribution_margin,
     contribution_margin_percent |->
         fillna0(FMul(FDiv(I(contribution_margin), I(r.price)), I(100))),
     total_revenue |-> r.price * r.quantity,
     total_variable_cost |-> r.cost * r.quantity,
     total_contribution |-> contribution_margin * r.quantity]

\* the slip of multiplying only the price by the quantity
calculate_metrics_slip(df) ==
    [i \in 1..Len(df) |->
        [MetricsOfRow(df[i]) EXCEPT
            !.total_contribution = df[i].price * df[i].quantity - df[i].cost]]

calculate_metrics(df) ==
    IF Len(df) > 0 THEN [i \in 1..Len(df) |-> MetricsOfRow(df[i])] ELSE df

\* FinancialAnalyzer(products_data, fixed_costs): no argument is validated
NewAnalyzer(pd, fc) ==
    [products_data |-> pd, fixed_costs |-> fc, df |-> calculate_metrics(pd)]

---------------------------------------------------------------------------
(* The tables one method call can reach: self.df and one local table.      *)
(* A DataFrame is an object: writing through a name changes the object the *)
(* name refers to.                                                          *)

Frame(df) == [self_df |-> df, local |-> <<>>]

\* the slip of leaving .copy() out: the local name refers to self.df itself
copy_alias(fr) == [fr |-> fr, ref |-> "self_df"]

\* DataFrame.copy(): the rows are copied into a new table, the result names it
copy(fr) == [fr |-> [fr EXCEPT !.local = fr.self_df], ref |-> "local"]

EmptyDict == [x \in {} |-> 0]
EmptyDataFrame == <<>>

IsEmptyResult(v) == DOMAIN v = {}

\* key in dict
HasKey(v, key) == DOMAIN v # {} /\ key \in DOMAIN v

---------------------------------------------------------------------------
(* FinancialAnalyzer: queries.  Each gives [df |-> self.df after the call, *)
(* ret |-> the value returned].                                            *)

\* Series.rank(ascending=False), method "average": ties share the mean of
\* the positions they occupy
rank(s, i) ==
    LET greater == Cardinality({j \in 1..Len(s) : FGt(s[j], s[i])})
        equal == Cardinality({j \in 1..Len(s) : FEq(s[j], s[i])})
    IN  IF IsNaN(s[i]) THEN NaN ELSE Norm(2 * greater + equal + 1, 2)

\* the slip of leaving out "* 100"
participation_fraction(x, total) == FDiv(I(x), I(total))

\* column / column.sum() * 100
participation(x, total) == FMul(FDiv(I(x), I(total)), I(100))

get_contribution_margin_analysis(slf) ==
    IF Len(slf.df) = 0 THEN [df |-> slf.df, ret |-> EmptyDataFrame]
    ELSE
    LET c == copy(Frame(slf.df))
        analysis_df == c.fr[c.ref]
        revenue_sum == SumInt(Col(analysis_df, "total_revenue"))
        contribution_sum == SumInt(Col(analysis_df, "total_contribution"))
        margins == Col(analysis_df, "contribution_margin_percent")
        withColumns ==
            [i \in 1..Len(analysis_df) |->
                \* an assignment replaces a column that is already there
                [contribution_rank |-> rank(margins, i),
                 revenue_participation |->
                     participation(analysis_df[i].total_revenue, revenue_sum),
                 contribution_participation |->
                     participation(analysis_df[i].total_contribution, contribution_sum)]
                @@ analysis_df[i]]
        fr == [c.fr EXCEPT ![c.ref] = withColumns]
    IN  [df |-> fr.self_df, ret |-> fr[c.ref]]

\* total / total_quantity if total_quantity > 0 else 0
weighted_avg(total, total_quantity) ==
    IF total_quantity > 0 THEN FDiv(I(total), I(total_quantity)) ELSE I(0)

\* the slip of guarding the division with "!= 0"
breakeven_units_nonzero(fixed, margin) ==
    IF ~FEq(margin, I(0)) THEN FDiv(I(fixed), margin) ELSE I(0)


\* the slip of dividing the margin by the fixed costs
breakeven_units_inverted(fixed, margin) ==
    IF FGt(margin, I(0)) THEN FDiv(margin, I(fixed)) ELSE I(0)

\* fixed_costs / margin if margin > 0 else 0
breakeven_units_of(fixed, margin) ==
    IF FGt(margin, I(0)) THEN FDiv(I(fixed), margin) ELSE I(0)

\* the slip of subtracting the wrong way round
safety_margin_units_swapped(total_quantity, breakeven_units) ==
    FSub(breakeven_units, I(total_quantity))

\* total_quantity - breakeven_units
safety_margin_units_of(total_quantity, breakeven_units) ==
    FSub(I(total_quantity), breakeven_units)

\* safety_margin_units / total_quantity * 100 if total_quantity > 0 else 0
safety_margin_percent_of(safety_margin_units, total_quantity) ==
    IF total_quantity > 0
    THEN FMul(FDiv(safety_margin_units, I(total_quantity)), I(100)) ELSE I(0)

BreakevenDict(slf) ==
    LET total_contribution == SumInt(Col(slf.df, "total_contribution"))
        total_quantity == SumInt(Col(slf.df, "quantity"))
        total_revenue == SumInt(Col(slf.df, "total_revenue"))
        weighted_avg_contribution_margin == weighted_avg(total_contribution, total_quantity)
        weighted_avg_price == weighted_avg(total_revenue, total_quantity)
        breakeven_units == breakeven_units_of(slf.fixed_costs, weighted_avg_contribution_margin)
        breakeven_revenue == FMul(breakeven_units, weighted_avg_price)
        safety_margin_units == safety_margin_units_of(total_quantity, breakeven_units)
        safety_margin_percent == safety_margin_percent_of(safety_margin_units, total_quantity)
        safety_margin_revenue == FSub(I(total_revenue), breakeven_revenue)
    IN  [breakeven_units |-> breakeven_units,
         breakeven_revenue |-> breakeven_revenue,
         safety_margin_units |-> safety_margin_units,
         safety_margin_percent |-> safety_margin_percent,
         safety_margin_revenue |-> safety_margin_revenue,
         weighted_avg_contribution_margin |-> weighted_avg_contribution_margin,
         weighted_avg_price |-> weighted_avg_price]

\* the slip of leaving out the empty-table guard
calculate_breakeven_analysis_noguard(slf) == [df |-> slf.df, ret |-> BreakevenDict(slf)]

calculate_breakeven_analysis(slf) ==
    IF Len(slf.df) = 0 THEN [df |-> slf.df, ret |-> EmptyDict]
    ELSE [df |-> slf.df, ret |-> BreakevenDict(slf)]


\* variant: the quotient without the test for a zero net profit
calculate_operating_leverage_div(slf) ==
    IF Len(slf.df) = 0 THEN [df |-> slf.df, ret |-> I(0)]
    ELSE
    LET total_contribution == SumInt(Col(slf.df, "total_contribution"))
    IN  [df |-> slf.df,
         ret |-> FDiv(I(total_contribution),
                      I(total_contribution - slf.fixed_costs))]

calculate_operating_leverage(slf) ==
    IF Len(slf.df) = 0 THEN [df |-> slf.df, ret |-> I(0)]
    ELSE
    LET total_contribution == SumInt(Col(slf.df, "total_contribution"))
        net_profit == total_contribution - slf.fixed_costs
    IN  [df |-> slf.df,
         ret |-> IF net_profit = 0 THEN PosInf
                 ELSE FDiv(I(total_contribution), I(net_profit))]


\* variant: the ratio without the test for a positive revenue
ratio_of_revenue_unguarded(total, total_revenue) ==
    FMul(FDiv(I(total), I(total_revenue)), I(100))

\* (total / total_revenue * 100) if total_revenue > 0 else 0
ratio_of_revenue(total, total_revenue) ==
    IF total_revenue > 0
    THEN FMul(FDiv(I(total), I(total_revenue)), I(100)) ELSE I(0)

get_cost_volume_profit_analysis(slf) ==
    IF Len(slf.df) = 0 THEN [df |-> slf.df, ret |-> EmptyDict]
    ELSE
    LET total_revenue == SumInt(Col(slf.df, "total_revenue"))
        total_variable_cost == SumInt(Col(slf.df, "total_variable_cost"))
        total_contribution == SumInt(Col(slf.df, "total_contribution"))
        net_profit == total_contribution - slf.fixed_costs
        contribution_margin_ratio == ratio_of_revenue(total_contribution, total_revenue)
        variable_cost_ratio == ratio_of_revenue(total_variable_cost, total_revenue)
        be == calculate_breakeven_analysis(slf)
        ol == calculate_operating_leverage([slf EXCEPT !.df = be.df])
    IN  [df |-> ol.df,
         ret |-> [total_revenue |-> total_revenue,
                  total_variable_cost |-> total_variable_cost,
                  total_contribution |-> total_contribution,
                  fixed_costs |-> slf.fixed_costs,
                  net_profit |-> net_profit,
                  contribution_margin_ratio |-> contribution_margin_ratio,
                  variable_cost_ratio |-> variable_cost_ratio,
                  operating_leverage |-> ol.ret] @@ be.ret]



\* the slip of repricing only the first row of that name
Repriced_first_only(df, product_idx, new_price) ==
    [i \in 1..Len(df) |->
        IF i \in product_idx /\ \A j \in product_idx : i <= j
        THEN LET contribution_margin == new_price - df[i].cost IN
             [df[i] EXCEPT
                 !.price = new_price,
                 !.contribution_margin = contribution_margin,
                 !.contribution_margin_percent =
                     FMul(FDiv(I(contribution_margin), I(new_price)), I(100)),
                 !.total_revenue = new_price * df[i].quantity,
                 !.total_contribution = contribution_margin * df[i].quantity]
        ELSE df[i]]

\* variant: the derived columns are assigned, the price column is not
Repriced_derived_only(df, product_idx, new_price) ==
    [i \in 1..Len(df) |->
        IF i \in product_idx
        THEN LET contribution_margin == new_price - df[i].cost IN
             [df[i] EXCEPT
                 !.contribution_margin = contribution_margin,
                 !.total_revenue = new_price * df[i].quantity,
                 !.total_contribution = contribution_margin * df[i].quantity]
        ELSE df[i]]

\* the rows of df_sim after the five assignments through .loc[product_idx, ...]
Repriced(df, product_idx, new_price) ==
    [i \in 1..Len(df) |->
        IF i \in product_idx
        THEN LET contribution_margin == new_price - df[i].cost IN
             [df[i] EXCEPT
                 !.price = new_price,
                 !.contribution_margin = contribution_margin,
                 !.contribution_margin_percent =
                     FMul(FDiv(I(contribution_margin), I(new_price)), I(100)),
                 !.total_revenue = new_price * df[i].quantity,
                 !.total_contribution = contribution_margin * df[i].quantity]
        ELSE df[i]]

ErrorProduct == [error |-> "Produto nao encontrado"]
ErrorCombo == [error |-> "Nenhum produto encontrado"]

simulate_price_changes(slf, product_name, new_price) ==
    IF Len(slf.df) = 0 THEN [df |-> slf.df, ret |-> EmptyDict]
    ELSE
    LET product_idx == {i \in 1..Len(slf.df) : slf.df[i].name = product_name} IN
    IF product_idx = {} THEN [df |-> slf.df, ret |-> ErrorProduct]
    ELSE
    LET current == get_cost_volume_profit_analysis(slf)
        c == copy(Frame(current.df))
        fr == [c.fr EXCEPT ![c.ref] = Repriced(c.fr[c.ref], product_idx, new_price)]
        \* df_sim.to_dict('records') into a new analyzer: every derived
        \* column is computed again from price, cost and quantity
        sim_analyzer == NewAnalyzer(fr[c.ref], slf.fixed_costs)
        new_analysis == get_cost_volume_profit_analysis(sim_analyzer).ret
        current_analysis == current.ret
    IN  [df |-> fr.self_df,
         ret |-> [current_profit |-> current_analysis.net_profit,
                  new_profit |-> new_analysis.net_profit,
                  profit_change |-> new_analysis.net_profit - current_analysis.net_profit,
                  current_contribution_ratio |-> current_analysis.contribution_margin_ratio,
                  new_contribution_ratio |-> new_analysis.contribution_margin_ratio]]

\* the number of rows nlargest / nsmallest keep
TopN == 3

Min(a, b) == IF a < b THEN a ELSE b


\* variant: keep="last", rows of equal key in reverse table order
nlargest_keep_last(n, df, key) ==
    LET pos(i) == 1 + Cardinality({j \in 1..Len(df) :
                        FGt(key[j], key[i]) \/ (FEq(key[j], key[i]) /\ j > i)})
    IN  [p \in 1..Min(n, Len(df)) |-> df[CHOOSE i \in 1..Len(df) : pos(i) = p]]

\* DataFrame.nlargest(n, column), keep="first": the rows in descending order
\* of the key, rows of equal key in table order, cut after n
nlargest(n, df, key) ==
    LET pos(i) == 1 + Cardinality({j \in 1..Len(df) :
                        FGt(key[j], key[i]) \/ (FEq(key[j], key[i]) /\ j < i)})
    IN  [p \in 1..Min(n, Len(df)) |-> df[CHOOSE i \in 1..Len(df) : pos(i) = p]]

nsmallest(n, df, key) ==
    LET pos(i) == 1 + Cardinality({j \in 1..Len(df) :
                        FLt(key[j], key[i]) \/ (FEq(key[j], key[i]) /\ j < i)})
    IN  [p \in 1..Min(n, Len(df)) |-> df[CHOOSE i \in 1..Len(df) : pos(i) = p]]

\* df[['name', 'contribution_margin_percent', 'total_contribution']].to_dict('records')
MixRecords(df) ==
    [i \in 1..Len(df) |->
        [name |-> df[i].name,
         contribution_margin_percent |-> df[i].contribution_margin_percent,
         total_contribution |-> df[i].total_contribution]]

IntsAsFloats(s) == [i \in 1..Len(s) |-> I(s[i])]

analyze_product_mix_optimization(slf) ==
    IF Len(slf.df) = 0 THEN [df |-> slf.df, ret |-> EmptyDict]
    ELSE
    LET a == get_contribution_margin_analysis(slf)
        df_analysis == a.ret
        margins == Col(df_analysis, "contribution_margin_percent")
        contributions == IntsAsFloats(Col(df_analysis, "total_contribution"))
    IN  [df |-> a.df,
         ret |-> [high_margin_products |-> MixRecords(nlargest(TopN, df_analysis, margins)),
                  low_margin_products |-> MixRecords(nsmallest(TopN, df_analysis, margins)),
                  high_contribution_products |->
                      MixRecords(nlargest(TopN, df_analysis, contributions))]]

\* the combo viability thresholds, in percent
ViableAbove == 15
ReviewAbove == 5


\* variant: the thresholds themselves on the upper side
viability_inclusive(combo_margin_percent) ==
    IF ~FLt(combo_margin_percent, I(ViableAbove)) THEN "Viavel"
    ELSE IF ~FLt(combo_margin_percent, I(ReviewAbove)) THEN "Revisar"
    ELSE "Nao recomendado"

\* 'Viável' if combo_margin_percent > 15 else 'Revisar' if
\* combo_margin_percent > 5 else 'Não recomendado'
viability(combo_margin_percent) ==
    IF FGt(combo_margin_percent, I(ViableAbove)) THEN "Viavel"
    ELSE IF FGt(combo_margin_percent, I(ReviewAbove)) THEN "Revisar"
    ELSE "Nao recomendado"

InList(x, list) == \E i \in 1..Len(list) : list[i] = x

\* the result of a combo over the rows combo_products
ComboDict(combo_products, product_names, discount_percent) ==
    LET combo_original_price == SumInt(Col(combo_products, "price"))
        combo_discounted_price ==
            FMul(I(combo_original_price), FSub(I(1), FDiv(I(discount_percent), I(100))))
        combo_total_cost == SumInt(Col(combo_products, "cost"))
        combo_margin == FSub(combo_discounted_price, I(combo_total_cost))
        combo_margin_percent ==
            IF FGt(combo_discounted_price, I(0))
            THEN FMul(FDiv(combo_margin, combo_discounted_price), I(100)) ELSE I(0)
        \* Series.mean(): the sum over the count (no NaN is left after fillna)
        avg_individual_margin ==
            FDiv(FSum(Col(combo_products, "contribution_margin_percent")),
                 I(Len(combo_products)))
    IN  [products |-> product_names,
         original_price |-> combo_original_price,
         discounted_price |-> combo_discounted_price,
         total_cost |-> combo_total_cost,
         combo_margin |-> combo_margin,
         combo_margin_percent |-> combo_margin_percent,
         avg_individual_margin_percent |-> avg_individual_margin,
         margin_impact |-> FSub(combo_margin_percent, avg_individual_margin),
         discount_applied |-> discount_percent,
         viability |-> viability(combo_margin_percent)]

\* variant: the whole table instead of the rows whose name is in the list
isin_all(df, product_names) == df

\* self.df[self.df['name'].isin(product_names)]
isin(df, product_names) == SelectSeq(df, LAMBDA r : InList(r.name, product_names))


\* the slip of leaving out the no-match check
calculate_combo_analysis_nocheck(slf, product_names, discount_percent) ==
    IF Len(slf.df) = 0 THEN [df |-> slf.df, ret |-> EmptyDict]
    ELSE [df |-> slf.df,
          ret |-> ComboDict(isin(slf.df, product_names), product_names, discount_percent)]


\* variant: a requested name that matches no product is an error
calculate_combo_analysis_strict(slf, product_names, discount_percent) ==
    IF Len(slf.df) = 0 THEN [df |-> slf.df, ret |-> EmptyDict]
    ELSE
    LET combo_products == isin(slf.df, product_names) IN
    IF \E i \in 1..Len(product_names) :
           \A j \in 1..Len(slf.df) : slf.df[j].name # product_names[i]
    THEN [df |-> slf.df, ret |-> ErrorCombo]
    ELSE [df |-> slf.df, ret |-> ComboDict(combo_products, product_names, discount_percent)]

calculate_combo_analysis(slf, product_names, discount_percent) ==
    IF Len(slf.df) = 0 THEN [df |-> slf.df, ret |-> EmptyDict]
    ELSE
    LET combo_products == isin(slf.df, product_names) IN
    IF Len(combo_products) = 0 THEN [df |-> slf.df, ret |-> ErrorCombo]
    ELSE [df |-> slf.df, ret |-> ComboDict(combo_products, product_names, discount_percent)]

---------------------------------------------------------------------------
(* Inputs *)

Names == {"a", "b"}
\* "c" names no product of any list
AllNames == Names \cup {"c"}
Discounts == {0, 50, 100}

SeqsUpTo(S, n) == UNION {[1..k -> S] : k \in 0..n}

Products ==
    [name : Names, price : 0..MaxPrice, cost : 0..MaxCost, quantity : 0..MaxQuantity]

\* what the constructor also accepts: negative prices, costs and quantities
SignedValues == (0 - MaxNegative)..MaxNegative
SignedProducts ==
    [name : {"a"}, price : SignedValues, cost : SignedValues, quantity : SignedValues]

\* products that differ in name and price only
PricedProducts == {r \in Products : r.cost = MaxCost /\ r.quantity = MaxQuantity}

\* one product at the dashboards' default price, cost and quantity, with
\* fixed costs of 400 (example scenario 2 of the specification)
Scenario2 ==
    [products_data |-> <<[name |-> "a", price |-> 10, cost |-> 5, quantity |-> 100]>>,
     fixed_costs |-> 400]


\* two products and fixed costs of 1000, amounts in tenths of the currency
\* unit (prices 4.50 and 6.00, costs 1.20 and 2.00)
Scenario1 ==
    [products_data |-> <<[name |-> "a", price |-> 45, cost |-> 12, quantity |-> 300],
                         [name |-> "b", price |-> 60, cost |-> 20, quantity |-> 200]>>,
     fixed_costs |-> 10000]

\* two products whose prices sum to 20 and whose costs sum to 10
Scenario3 ==
    [products_data |-> <<[name |-> "a", price |-> 12, cost |-> 4, quantity |-> 1],
                         [name |-> "b", price |-> 8, cost |-> 6, quantity |-> 1]>>,
     fixed_costs |-> 0]

\* products sold alone at a margin of exactly 15% and of exactly 5%
ScenarioThresholds ==
    [products_data |-> <<[name |-> "a", price |-> 20, cost |-> 17, quantity |-> 1],
                         [name |-> "b", price |-> 20, cost |-> 19, quantity |-> 1]>>,
     fixed_costs |-> 0]

Scenarios == {Scenario1, Scenario2, Scenario3, ScenarioThresholds}


\* the names of the products of a longer list, by position
MixNames == <<"a", "b", "c", "d", "e">>

\* lists of more than three sold products, all of different names
MixLists ==
    {[i \in 1..MaxMixProducts |-> [name |-> MixNames[i]] @@ f[i]] :
        f \in [1..MaxMixProducts ->
                  [price : 1..MaxPrice, cost : 0..MaxCost, quantity : 1..MaxQuantity]]}

NameLists ==
    {l \in SeqsUpTo(AllNames, MaxNames) : \A i, j \in 1..Len(l) : i # j => l[i] # l[j]}

NoArgs == <<>>
NoCall == [op |-> "none", args |-> NoArgs, ret |-> <<>>]

---------------------------------------------------------------------------
(* Actions *)


\* a key that is not in st.session_state
Absent == [k |-> "absent"]

\* st.session_state at the start of a session
NoSession == [combo_analysis |-> Absent, price_simulation |-> Absent]

InitWith(lists, costs) ==
    /\ pc = "new"
    /\ \/ products_data \in lists /\ fixed_costs \in costs
       \/ \E s \in Scenarios :
             products_data = s.products_data /\ fixed_costs = s.fixed_costs
    /\ analyzer = None
    /\ call = NoCall
    /\ first = NoCall
    /\ session_state = NoSession

Init == InitWith(SeqsUpTo(Products, MaxProducts), 0..MaxFixedCosts)

InitUnvalidated ==
    InitWith(SeqsUpTo(SignedProducts, MaxProducts), SignedValues)

InitIdem == InitWith(SeqsUpTo(PricedProducts, MaxProducts), 0..MaxFixedCosts)


InitMix == InitWith(MixLists, {0})

\* analyzer = FinancialAnalyzer(product_data, fixed_costs)
Construct ==
    /\ pc = "new"
    /\ analyzer' = NewAnalyzer(products_data, fixed_costs)
    /\ pc' = "ready"
    /\ UNCHANGED <<products_data, fixed_costs, call, first, session_state>>

\* one query: r is [df |-> self.df after the call, ret |-> the value returned]
Returns(op, args, r) ==
    /\ pc = "ready"
    /\ analyzer' = [analyzer EXCEPT !.df = r.df]
    /\ call' = [op |-> op, args |-> args, ret |-> r.ret]
    /\ pc' = "returned"
    /\ UNCHANGED <<products_data, fixed_costs, first, session_state>>

ContributionAnalysis ==
    Returns("get_contribution_margin_analysis", NoArgs,
            get_contribution_margin_analysis(analyzer))

BreakevenAnalysis ==
    Returns("calculate_breakeven_analysis", NoArgs, calculate_breakeven_analysis(analyzer))

OperatingLeverage ==
    Returns("calculate_operating_leverage", NoArgs, calculate_operating_leverage(analyzer))

CvpAnalysis ==
    Returns("get_cost_volume_profit_analysis", NoArgs,
            get_cost_volume_profit_analysis(analyzer))

MixOptimization ==
    Returns("analyze_product_mix_optimization", NoArgs,
            analyze_product_mix_optimization(analyzer))

ComboAnalysis ==
    \E product_names \in NameLists, discount_percent \in Discounts :
        Returns("calculate_combo_analysis",
                [product_names |-> product_names, discount_percent |-> discount_percent],
                calculate_combo_analysis(analyzer, product_names, discount_percent))

SimulatePriceChanges ==
    \E product_name \in AllNames, new_price \in 0..MaxPrice :
        Returns("simulate_price_changes",
                [product_name |-> product_name, new_price |-> new_price],
                simulate_price_changes(analyzer, product_name, new_price))

\* the caller has read the result
Return ==
    /\ pc = "returned"
    /\ pc' = "ready"
    /\ call' = NoCall
    /\ UNCHANGED <<products_data, fixed_costs, analyzer, first, session_state>>

\* the caller has read the result and keeps it, to compare a later call with it
ReturnAndRemember ==
    /\ pc = "returned"
    /\ first = NoCall
    /\ pc' = "ready"
    /\ call' = NoCall
    /\ first' = call
    /\ UNCHANGED <<products_data, fixed_costs, analyzer, session_state>>


\* cvp_analysis = analyzer.get_cost_volume_profit_analysis()
cvp_analysis == get_cost_volume_profit_analysis(analyzer).ret

\* the values of the elasticity slider taken here (whole numbers of -3.0 .. 0.0)
Elasticities == {0 - 1, 0}

\* the position of the first product of that name
FirstNamed(ps, name) ==
    CHOOSE i \in 1..Len(ps) :
        ps[i].name = name /\ \A j \in 1..(i - 1) : ps[j].name # name

\* new_quantity = max(0, current_quantity * (1 + quantity_change_percent/100)),
\* taken through int(): with quantity_change_percent = elasticity *
\* (new_price - current_price) / current_price * 100, and 0 for a current
\* price of 0
new_quantity_of(current_price, current_quantity, new_price, elasticity) ==
    IF current_price > 0
    THEN LET scaled == current_quantity
                          * (current_price + elasticity * (new_price - current_price))
         IN  IF scaled <= 0 THEN 0 ELSE scaled \div current_price
    ELSE current_quantity

\* the button handler of the elasticity simulation.  product_data is a list
\* of dict objects; product_data.copy() is a new list of the same objects, so
\* an item assignment through simulated_data[i] is an assignment to the dict
\* that product_data[i] and analyzer.products_data[i] also are.
ElasticitySimulation ==
    /\ pc = "ready"
    /\ Len(products_data) > 0
    /\ \E n \in 1..Len(products_data), new_price \in 0..MaxPrice,
          elasticity \in Elasticities,
          \* computed once, before the handler, at the start of the run
          contribution_analysis \in {get_contribution_margin_analysis(analyzer).ret},
          cvp \in {cvp_analysis} :
        LET product_to_change == products_data[n].name IN
        \E row \in {contribution_analysis[FirstNamed(contribution_analysis,
                                                     product_to_change)]} :
        LET current_price == row.price
            current_quantity == row.quantity
            price_change_percent ==
                IF current_price > 0
                THEN FMul(FDiv(I(new_price - current_price), I(current_price)), I(100))
                ELSE I(0)
            quantity_change_percent == FMul(I(elasticity), price_change_percent)
            new_quantity ==
                new_quantity_of(current_price, current_quantity, new_price, elasticity)
            \* simulated_data = product_data.copy(): references to the same dicts
            simulated_data == [i \in 1..Len(products_data) |-> i]
            hit == FirstNamed(products_data, product_to_change)
            dicts == [products_data EXCEPT
                         ![simulated_data[hit]] =
                             [@ EXCEPT !.price = new_price, !.quantity = new_quantity]]
            sim_analyzer ==
                NewAnalyzer([i \in 1..Len(simulated_data) |-> dicts[simulated_data[i]]],
                            fixed_costs)
        IN  /\ new_quantity <= MaxQuantity
            /\ \E sim_cvp \in {get_cost_volume_profit_analysis(sim_analyzer).ret} :
                /\ products_data' = dicts
                /\ analyzer' = [analyzer EXCEPT !.products_data = dicts]
                /\ call' = [op |-> "elasticity_simulation",
                            args |-> [product_name |-> product_to_change,
                                      new_price |-> new_price,
                                      elasticity |-> elasticity],
                            ret |-> [current_profit |-> cvp.net_profit,
                                     new_profit |-> sim_cvp.net_profit,
                                     profit_change |-> sim_cvp.net_profit - cvp.net_profit,
                                     current_revenue |-> cvp.total_revenue,
                                     new_revenue |-> sim_cvp.total_revenue,
                                     revenue_change |->
                                         sim_cvp.total_revenue - cvp.total_revenue,
                                     current_contribution_ratio |->
                                         cvp.contribution_margin_ratio,
                                     new_contribution_ratio |->
                                         sim_cvp.contribution_margin_ratio,
                                     price_change_percent |-> price_change_percent,
                                     quantity_change_percent |-> quantity_change_percent]]
    /\ session_state' = [session_state EXCEPT !.price_simulation = call'.ret]
    /\ pc' = "returned"
    /\ UNCHANGED <<fixed_costs, first>>

\* what a presentation path shows for a number: f"{value:.2f}" is the
\* ordinary numeric formatting, the sign of infinity the dedicated display,
\* and a legend is chosen by comparing the number with thresholds
format_2f(value) == [kind |-> "number", format |-> ".2f", value |-> value]
InfinityDisplay == [kind |-> "infinity"]
Legend(text) == [kind |-> "threshold", text |-> text]

\* f"{leverage_value:.2f}" if leverage_value != float('inf') else "∞"
leverage_display(leverage_value) ==
    IF leverage_value # PosInf THEN format_2f(leverage_value) ELSE InfinityDisplay

\* if leverage_value < 2: ... elif leverage_value < 5: ... else: ...
leverage_legend(leverage_value) ==
    IF FLt(leverage_value, I(2)) THEN Legend("Baixa - Estavel")
    ELSE IF FLt(leverage_value, I(5)) THEN Legend("Moderada")
    ELSE Legend("Alta - Volatil")

\* the operating leverage line of generate_report:
\* {cvp_analysis['operating_leverage']:.2f}
report_leverage(cvp) == format_2f(cvp.operating_leverage)

\* a presentation path of the result section, which the dashboards enter
\* for a non-empty product list: it shows the CVP report of the analyzer
Presents(path, shown) ==
    /\ pc = "ready"
    /\ Len(products_data) > 0
    /\ call' = [op |-> path, args |-> NoArgs, ret |-> shown]
    /\ pc' = "returned"
    /\ UNCHANGED <<products_data, fixed_costs, analyzer, first, session_state>>

LeverageMetric ==
    Presents("leverage_metric", leverage_display(cvp_analysis.operating_leverage))

LeverageLegend ==
    Presents("leverage_legend", leverage_legend(cvp_analysis.operating_leverage))

GenerateReport == Presents("generate_report", report_leverage(cvp_analysis))


\* the exception Python raises for a call with too many positional arguments
TypeError == [k |-> "TypeError"]

\* FinancialAnalyzer(*args): __init__(self, products_data, fixed_costs) takes
\* exactly two arguments
FinancialAnalyzer(args) ==
    IF Len(args) = 2 THEN NewAnalyzer(args[1], args[2]) ELSE TypeError

\* the values of the tax rate input taken here
TaxRates == {0, 6}

\* "if product_data: analyzer = FinancialAnalyzer(...)" at the start of a
\* dashboard run; an exception ends the run before the result section
Initialise(args) ==
    /\ pc = "new"
    /\ Len(products_data) > 0
    /\ LET a == FinancialAnalyzer(args) IN
       IF a = TypeError
       THEN pc' = "TypeError" /\ UNCHANGED analyzer
       ELSE pc' = "ready" /\ analyzer' = a
    /\ UNCHANGED <<products_data, fixed_costs, call, first, session_state>>

\* app_melhorado.py
InitialiseMelhorado ==
    \E tax_rate \in TaxRates : Initialise(<<products_data, fixed_costs, tax_rate>>)

\* app_enhanced.py
InitialiseEnhanced == Initialise(<<products_data, fixed_costs>>)

Query ==
    \/ ContributionAnalysis
    \/ BreakevenAnalysis
    \/ OperatingLeverage
    \/ CvpAnalysis
    \/ MixOptimization
    \/ ComboAnalysis
    \/ SimulatePriceChanges

Next == Construct \/ Query \/ Return

NextIdem == Next \/ ReturnAndRemember

Spec == Init /\ [][Next]_vars

SpecUnvalidated == InitUnvalidated /\ [][Next]_vars


SpecMix == InitMix /\ [][Next]_vars


NextPresentation ==
    \/ Construct
    \/ SimulatePriceChanges
    \/ ElasticitySimulation
    \/ LeverageMetric
    \/ LeverageLegend
    \/ GenerateReport
    \/ Return

SpecPresentation == InitIdem /\ [][NextPresentation]_vars



\* no file was uploaded
NoFile == [k |-> "None"]

\* a row of an uploaded sheet: the product it describes, and whether float()
\* and int() accept its cells
FileRows ==
    [product : [name : {"x", "y"}, price : {1}, cost : {0}, quantity : {1}],
     converts : BOOLEAN]

\* an uploaded file: whether read_csv / read_excel reads it, whether it has
\* the four required columns, and its rows
Files ==
    [reads : BOOLEAN, has_required_columns : BOOLEAN,
     rows : SeqsUpTo(FileRows, MaxFileRows)]

\* the products of the manual entry form: num_products is at least 1
ManualEntries ==
    SeqsUpTo([name : {"m"}, price : {2}, cost : {1}, quantity : 1..2], MaxManual)
        \ {<<>>}

\* the for loop over df_upload.iterrows(): every row is converted and
\* appended in turn, and the first conversion that raises leaves the loop
RECURSIVE AppendRows(_, _)
AppendRows(product_data, rows) ==
    IF rows = <<>> THEN [product_data |-> product_data, raised |-> FALSE]
    ELSE IF ~Head(rows).converts THEN [product_data |-> product_data, raised |-> TRUE]
    ELSE AppendRows(Append(product_data, Head(rows).product), Tail(rows))

\* the try block: product_data as it is after the block, and use_uploaded_data
ProcessUpload(uploaded_file) ==
    IF uploaded_file = NoFile \/ ~uploaded_file.reads
           \/ ~uploaded_file.has_required_columns
    THEN [product_data |-> <<>>, use_uploaded_data |-> FALSE]
    ELSE LET loop == AppendRows(<<>>, uploaded_file.rows)
         IN  [product_data |-> loop.product_data, use_uploaded_data |-> ~loop.raised]

\* product_data = [] ... the upload, then the manual entry if there is no
\* valid upload: the manual products are appended to the same list
CollectProducts ==
    /\ pc = "start"
    /\ \E uploaded_file \in Files \cup {NoFile}, manual \in ManualEntries :
          LET upload == ProcessUpload(uploaded_file)
              product_data == IF upload.use_uploaded_data THEN upload.product_data
                              ELSE upload.product_data \o manual
          IN  /\ products_data' = product_data
              /\ call' = [op |-> "collect_products",
                          args |-> [uploaded_file |-> uploaded_file, manual |-> manual],
                          ret |-> product_data]
    /\ pc' = "new"
    /\ UNCHANGED <<fixed_costs, analyzer, first, session_state>>

InitUpload ==
    /\ pc = "start"
    /\ products_data = <<>>
    /\ fixed_costs \in 0..MaxFixedCosts
    /\ analyzer = None
    /\ call = NoCall
    /\ first = NoCall
    /\ session_state = NoSession

NextUpload == CollectProducts \/ InitialiseMelhorado

SpecUpload == InitUpload /\ [][NextUpload]_vars


\* Series.max() of a non-empty integer column
MaxOf(s) == CHOOSE x \in {s[i] : i \in 1..Len(s)} : \A i \in 1..Len(s) : s[i] <= x

\* variant: the viability label from the combo's own margin percent
advanced_viability_percent(margin_impact, combo_margin_percent) ==
    IF FGt(combo_margin_percent, I(ViableAbove)) THEN "Viavel" ELSE "Nao recomendado"

\* 'Viável' if margin_impact > 0 else 'Não recomendado'
advanced_viability(margin_impact, combo_margin_percent) ==
    IF FGt(margin_impact, I(0)) THEN "Viavel" ELSE "Nao recomendado"

\* the button handler of the advanced combo simulator, for a non-empty
\* selection among the names of contribution_analysis
advanced_combo_analysis(contribution_analysis, cvp, selected_products, combo_discount) ==
    LET combo_products == isin(contribution_analysis, selected_products)
        max_quantity == MaxOf(Col(combo_products, "quantity"))
        combo_original_price == SumInt(Col(combo_products, "price"))
        combo_discounted_price ==
            FMul(I(combo_original_price), FSub(I(1), FDiv(I(combo_discount), I(100))))
        combo_total_cost == SumInt(Col(combo_products, "cost"))
        combo_margin == FSub(combo_discounted_price, I(combo_total_cost))
        combo_margin_percent ==
            IF FGt(combo_discounted_price, I(0))
            THEN FMul(FDiv(combo_margin, combo_discounted_price), I(100)) ELSE I(0)
        individual_contribution == SumInt(Col(combo_products, "total_contribution"))
        combo_contribution == FMul(combo_margin, I(max_quantity))
        new_total_contribution ==
            FAdd(FSub(I(cvp.total_contribution), I(individual_contribution)),
                 combo_contribution)
        margin_impact == FSub(new_total_contribution, I(cvp.total_contribution))
    IN  [products |-> selected_products,
         original_price |-> combo_original_price,
         discounted_price |-> combo_discounted_price,
         total_cost |-> combo_total_cost,
         combo_margin |-> combo_margin,
         combo_margin_percent |-> combo_margin_percent,
         estimated_quantity |-> max_quantity,
         individual_contribution |-> individual_contribution,
         combo_contribution |-> combo_contribution,
         margin_impact |-> margin_impact,
         viability |-> advanced_viability(margin_impact, combo_margin_percent)]


\* the inputs of a dashboard session: one product "a" whose price the user
\* edits, the fixed costs, the multiselect, the discount slider (0 .. 50)
SessionLists ==
    {<<[name |-> "a", price |-> p, cost |-> 1, quantity |-> 1]>> : p \in 1..MaxPrice}
SessionFixedCosts == 0..1
SessionSelections == {<<>>, <<"a">>}
SessionDiscounts == {0, 50}
SessionPrices == 0..1

\* what the right-hand column shows for a cache: "if key in st.session_state
\* and st.session_state[key]" skips an absent key and an empty dict
Nothing == [k |-> "nothing"]
Displayed(cache) == IF cache = Absent \/ cache = EmptyDict THEN Nothing ELSE cache


\* variant: every run of the script recomputes both caches from the widgets
Rerun_recomputed(app, product_data, costs, button, selected_products, combo_discount, product_to_change, new_price, combo_analysis, price_simulation) ==
    /\ pc = app
    /\ products_data' = product_data
    /\ fixed_costs' = costs
    /\ analyzer' = NewAnalyzer(product_data, costs)
    /\ session_state' =
          [combo_analysis |->
               IF selected_products # <<>>
               THEN combo_analysis ELSE session_state.combo_analysis,
           price_simulation |-> price_simulation]
    /\ call' = [op |-> "rerun",
                args |-> [button |-> button,
                          selected_products |-> selected_products,
                          combo_discount |-> combo_discount,
                          product_to_change |-> product_to_change,
                          new_price |-> new_price],
                ret |-> [combo |-> Displayed(session_state'.combo_analysis),
                         sim |-> Displayed(session_state'.price_simulation)]]
    /\ UNCHANGED <<pc, first>>

\* one run of the script with the widgets as they are, at most one button
\* pressed: the analyzer is built again, a pressed button writes its cache,
\* and the caches are displayed
Rerun(app, product_data, costs, button, selected_products, combo_discount, product_to_change, new_price, combo_analysis, price_simulation) ==
    /\ pc = app
    /\ products_data' = product_data
    /\ fixed_costs' = costs
    /\ analyzer' = NewAnalyzer(product_data, costs)
    /\ session_state' =
          [combo_analysis |->
               IF button = "combo" /\ selected_products # <<>>
               THEN combo_analysis ELSE session_state.combo_analysis,
           price_simulation |->
               IF button = "price" THEN price_simulation
               ELSE session_state.price_simulation]
    /\ call' = [op |-> "rerun",
                args |-> [button |-> button,
                          selected_products |-> selected_products,
                          combo_discount |-> combo_discount,
                          product_to_change |-> product_to_change,
                          new_price |-> new_price],
                ret |-> [combo |-> Displayed(session_state'.combo_analysis),
                         sim |-> Displayed(session_state'.price_simulation)]]
    /\ UNCHANGED <<pc, first>>

\* app_enhanced.py: the combo button and the price simulation button
RerunEnhanced ==
    \E product_data \in SessionLists, costs \in SessionFixedCosts,
       button \in {"none", "combo", "price"},
       selected_products \in SessionSelections, combo_discount \in SessionDiscounts,
       new_price \in SessionPrices :
        LET a == NewAnalyzer(product_data, costs)
            product_to_change == product_data[1].name
        IN  Rerun("app_enhanced", product_data, costs, button, selected_products,
                  combo_discount, product_to_change, new_price,
                  calculate_combo_analysis(a, selected_products, combo_discount).ret,
                  simulate_price_changes(a, product_to_change, new_price).ret)

\* app_melhorado.py: the advanced combo button (the analyzer taken as built
\* from product_data and fixed_costs)
RerunMelhorado ==
    \E product_data \in SessionLists, costs \in SessionFixedCosts,
       button \in {"none", "combo"},
       selected_products \in SessionSelections, combo_discount \in SessionDiscounts :
        LET a == NewAnalyzer(product_data, costs)
            product_to_change == product_data[1].name
        IN  Rerun("app_melhorado", product_data, costs, button, selected_products,
                  combo_discount, product_to_change, product_data[1].price,
                  advanced_combo_analysis(get_contribution_margin_analysis(a).ret,
                                          get_cost_volume_profit_analysis(a).ret,
                                          selected_products, combo_discount),
                  session_state.price_simulation)

InitSession ==
    /\ pc \in {"app_enhanced", "app_melhorado"}
    /\ products_data = <<>>
    /\ fixed_costs = 0
    /\ analyzer = None
    /\ call = NoCall
    /\ first = NoCall
    /\ session_state = NoSession

NextSession == RerunEnhanced \/ RerunMelhorado

SpecSession == InitSession /\ [][NextSession]_vars


\* the slider of the advanced combo simulator runs from 0 to 50
SliderDiscounts == {0, 50}

\* the multiselect offers the names of contribution_analysis: a selection is
\* a list of distinct names among them, in the order they were picked
Selections(contribution_analysis) ==
    {l \in NameLists :
        \A i \in 1..Len(l) :
            \E j \in 1..Len(contribution_analysis) : contribution_analysis[j].name = l[i]}

\* a press of the advanced combo button with a non-empty selection (the
\* analyzer taken as built from product_data and fixed_costs)
AdvancedComboAnalysis ==
    /\ pc = "ready"
    /\ \E contribution_analysis \in {get_contribution_margin_analysis(analyzer).ret} :
       \E selected_products \in Selections(contribution_analysis) \ {<<>>},
          combo_discount \in SliderDiscounts :
       \E combo_analysis \in {advanced_combo_analysis(contribution_analysis,
                                  cvp_analysis, selected_products, combo_discount)} :
          /\ session_state' = [session_state EXCEPT !.combo_analysis = combo_analysis]
          /\ call' = [op |-> "advanced_combo_analysis",
                      args |-> [selected_products |-> selected_products,
                                combo_discount |-> combo_discount],
                      ret |-> combo_analysis]
    /\ pc' = "returned"
    /\ UNCHANGED <<products_data, fixed_costs, analyzer, first>>

InitAdvancedCombo == InitWith(SeqsUpTo(Products, MaxProducts), {0})

NextAdvancedCombo == Construct \/ AdvancedComboAnalysis \/ Return

SpecAdvancedCombo == InitAdvancedCombo /\ [][NextAdvancedCombo]_vars

NextStartup == InitialiseMelhorado \/ InitialiseEnhanced \/ Query \/ Return

SpecStartup == Init /\ [][NextStartup]_vars

SpecIdem == InitIdem /\ [][NextIdem]_vars

---------------------------------------------------------------------------
(* Claims *)

Returned(op) == pc = "returned" /\ call.op = op

\* the step in which query op returns
ReturnsFrom(op) == pc = "ready" /\ pc' = "returned" /\ call'.op = op

\* C1: simulate_price_changes never changes the analyzer it is called on:
\* whatever the product name (found or not) and the new price (0 included),
\* the analyzer's table and fixed costs, and so its CVP report, are the same
\* after the call as before it.
C1_SimulateLeavesAnalyzer ==
    [][ReturnsFrom("simulate_price_changes") =>
          /\ analyzer'.df = analyzer.df
          /\ analyzer' = analyzer
          /\ get_cost_volume_profit_analysis(analyzer').ret
                 = get_cost_volume_profit_analysis(analyzer).ret]_vars

\* a simulation to price 0 of a product that is found and changes the profit
C1_Witness ==
    /\ Returned("simulate_price_changes")
    /\ call.args.new_price = 0
    /\ HasKey(call.ret, "profit_change")
    /\ call.ret.profit_change # 0

\* C2: queries are idempotent: a query called again with the same arguments,
\* after any other queries, returns what the remembered earlier call
\* returned, and no query changes the analyzer's table or fixed costs.
C2_Idempotent ==
    /\ [](first.op = call.op /\ first.args = call.args => call.ret = first.ret)
    /\ [][pc = "ready" /\ pc' = "returned" => analyzer' = analyzer]_vars

\* a price simulation that was remembered and is called again
C2_Witness ==
    /\ Returned("simulate_price_changes")
    /\ first.op = call.op /\ first.args = call.args
    /\ HasKey(call.ret, "profit_change")
    /\ call.ret.profit_change # 0

\* C3 (as claimed): construction fails on a negative fixed cost, price, cost
\* or quantity, so no analyzer is ever built from such input.
InvalidInput ==
    \/ fixed_costs < 0
    \/ \E i \in 1..Len(products_data) :
          products_data[i].price < 0 \/ products_data[i].cost < 0
              \/ products_data[i].quantity < 0

C3_InvalidInputRejected == InvalidInput => pc = "new" /\ analyzer = None

\* C4 (as claimed): on an analyzer built from an empty product list every
\* query returns an empty table or an empty mapping.
C4_EveryQueryEmpty ==
    pc = "returned" /\ products_data = <<>> => IsEmptyResult(call.ret)

\* C4 (amended): an analyzer is built from an empty product list, and on it
\* every query returns an empty table or mapping and no error, except
\* calculate_operating_leverage, which returns the number 0.
C4_EmptyPolicy ==
    /\ pc # "new" /\ products_data = <<>> => analyzer.df = <<>>
    /\ pc = "returned" /\ products_data = <<>> =>
          IF call.op = "calculate_operating_leverage"
          THEN call.ret = I(0)
          ELSE IsEmptyResult(call.ret)

\* the break-even query has returned on the empty analyzer
C4_Witness ==
    Returned("calculate_breakeven_analysis") /\ products_data = <<>>
        /\ analyzer.df = <<>>

NoProductNamed(names) ==
    \A i \in 1..Len(products_data) : ~InList(products_data[i].name, names)

\* C5 (as claimed): whenever no product has a requested name, the combo
\* analysis and the price simulation return the not-found error.
C5_MissAlwaysError ==
    /\ Returned("calculate_combo_analysis") /\ NoProductNamed(call.args.product_names)
          => DOMAIN call.ret = {"error"}
    /\ Returned("simulate_price_changes") /\ NoProductNamed(<<call.args.product_name>>)
          => DOMAIN call.ret = {"error"}

\* C5 (amended): on an analyzer with at least one product, a lookup that
\* matches no product returns the not-found error and nothing else; on the
\* empty analyzer it returns the empty mapping.
C5_MissIsError ==
    /\ Returned("calculate_combo_analysis") /\ NoProductNamed(call.args.product_names)
          => IF Len(products_data) > 0
             THEN DOMAIN call.ret = {"error"} /\ call.ret = ErrorCombo
             ELSE IsEmptyResult(call.ret)
    /\ Returned("simulate_price_changes") /\ NoProductNamed(<<call.args.product_name>>)
          => IF Len(products_data) > 0
             THEN DOMAIN call.ret = {"error"} /\ call.ret = ErrorProduct
             ELSE IsEmptyResult(call.ret)

\* a combo over names none of which is a product of a two-product analyzer
C5_Witness ==
    /\ Returned("calculate_combo_analysis")
    /\ Len(products_data) = 2
    /\ Len(call.args.product_names) > 0
    /\ NoProductNamed(call.args.product_names)

\* sums over the caller's product list
TotalRevenue(ps) == SumInt([i \in 1..Len(ps) |-> ps[i].price * ps[i].quantity])
TotalVariableCost(ps) == SumInt([i \in 1..Len(ps) |-> ps[i].cost * ps[i].quantity])
TotalQuantity(ps) == SumInt([i \in 1..Len(ps) |-> ps[i].quantity])
TotalContribution(ps) ==
    SumInt([i \in 1..Len(ps) |-> (ps[i].price - ps[i].cost) * ps[i].quantity])

\* C6: for a non-empty product list, total_revenue = price * quantity,
\* total_variable_cost = cost * quantity and total_contribution =
\* (price - cost) * quantity in every row, and the sum of total_contribution
\* is the sum of total_revenue minus the sum of total_variable_cost.
C6_ContributionIsRevenueMinusCost ==
    pc # "new" /\ Len(products_data) > 0 =>
        /\ Len(analyzer.df) = Len(products_data)
        /\ \A i \in 1..Len(products_data) :
              /\ analyzer.df[i].total_revenue
                     = products_data[i].price * products_data[i].quantity
              /\ analyzer.df[i].total_variable_cost
                     = products_data[i].cost * products_data[i].quantity
              /\ analyzer.df[i].total_contribution
                     = (products_data[i].price - products_data[i].cost)
                           * products_data[i].quantity
        /\ SumInt(Col(analyzer.df, "total_contribution"))
               = SumInt(Col(analyzer.df, "total_revenue"))
                     - SumInt(Col(analyzer.df, "total_variable_cost"))

\* two products, one sold at a loss, with a positive total contribution
C6_Witness ==
    /\ pc = "ready" /\ Len(analyzer.df) = 2
    /\ analyzer.df[1].total_contribution < 0
    /\ analyzer.df[2].quantity > 1
    /\ SumInt(Col(analyzer.df, "total_contribution")) > 0

\* C7: when total revenue and total contribution are positive, the
\* revenue_participation values of the contribution analysis sum to 100 and
\* so do the contribution_participation values.
C7_ParticipationSumsTo100 ==
    /\ Returned("get_contribution_margin_analysis")
    /\ Len(products_data) > 0
    /\ TotalRevenue(products_data) > 0
    /\ TotalRevenue(products_data) - TotalVariableCost(products_data) > 0
    => /\ Len(call.ret) = Len(products_data)
       /\ FSum(Col(call.ret, "revenue_participation")) = I(100)
       /\ FSum(Col(call.ret, "contribution_participation")) = I(100)

\* two products with different shares, one with a negative share of the
\* contribution
C7_Witness ==
    /\ Returned("get_contribution_margin_analysis")
    /\ Len(call.ret) = 2
    /\ SumInt(Col(call.ret, "total_revenue")) > 0
    /\ SumInt(Col(call.ret, "total_contribution")) > 0
    /\ FLt(call.ret[1].contribution_participation, I(0))
    /\ FGt(call.ret[2].contribution_participation, I(100))
    /\ call.ret[2].revenue_participation = I(100)

\* C8 (as claimed): contribution_margin_percent is (price - cost) / price * 100
\* when price > 0 and 0 when price = 0, whatever the cost.
C8_MarginPercentGuarded ==
    pc # "new" =>
        \A i \in 1..Len(analyzer.df) :
            LET r == analyzer.df[i] IN
            /\ r.price > 0 =>
                  r.contribution_margin_percent = Norm((r.price - r.cost) * 100, r.price)
            /\ r.price = 0 => r.contribution_margin_percent = I(0)

\* C9: for a non-empty product list the break-even analysis follows the
\* stated algorithm: the weighted averages are total contribution and total
\* revenue over total quantity (0 when the total quantity is 0); the
\* break-even units times a positive weighted margin give the fixed costs,
\* and are 0 for any other margin, never infinite; break-even revenue is
\* units times weighted price; the safety margin in units is total quantity
\* minus break-even units, and in percent that margin over total quantity
\* times 100 (0 when the total quantity is 0).  Example scenario 2 gives a
\* weighted margin of 5, 80 break-even units and a safety margin of 20, 20%.
C9_BreakevenAlgorithm ==
    Returned("calculate_breakeven_analysis") /\ Len(products_data) > 0 =>
        LET r == call.ret
            totalQty == TotalQuantity(products_data)
            totalRevenue == TotalRevenue(products_data)
            totalContribution == TotalContribution(products_data)
        IN  /\ r.weighted_avg_contribution_margin
                   = IF totalQty = 0 THEN I(0) ELSE Norm(totalContribution, totalQty)
            /\ r.weighted_avg_price
                   = IF totalQty = 0 THEN I(0) ELSE Norm(totalRevenue, totalQty)
            /\ IsFinite(r.breakeven_units)
            /\ IF totalQty > 0 /\ totalContribution > 0
               THEN FMul(r.breakeven_units, r.weighted_avg_contribution_margin)
                        = I(fixed_costs)
               ELSE r.breakeven_units = I(0)
            /\ r.breakeven_revenue = FMul(r.breakeven_units, r.weighted_avg_price)
            /\ IsFinite(r.safety_margin_units)
            /\ FAdd(r.safety_margin_units, r.breakeven_units) = I(totalQty)
            /\ IsFinite(r.safety_margin_percent)
            /\ IF totalQty = 0
               THEN r.safety_margin_percent = I(0)
               ELSE FMul(r.safety_margin_percent, I(totalQty))
                        = FMul(r.safety_margin_units, I(100))
            /\ (products_data = Scenario2.products_data
                    /\ fixed_costs = Scenario2.fixed_costs) =>
                  /\ r.weighted_avg_contribution_margin = I(5)
                  /\ r.breakeven_units = I(80)
                  /\ r.safety_margin_units = I(20)
                  /\ r.safety_margin_percent = I(20)

\* the break-even analysis of example scenario 2
C9_Witness ==
    /\ Returned("calculate_breakeven_analysis")
    /\ products_data = Scenario2.products_data /\ fixed_costs = Scenario2.fixed_costs
    /\ call.ret.breakeven_units = I(80)

AllMarginsPositive ==
    /\ Len(products_data) > 0
    /\ \A i \in 1..Len(products_data) : products_data[i].price > products_data[i].cost

\* C10 (as claimed): with fixed costs 0 and every product's price above its
\* cost, whatever the quantities, break-even units are 0 and the safety
\* margin is 100 percent.
C10_ZeroFixedCostsAlways100 ==
    Returned("calculate_breakeven_analysis") /\ fixed_costs = 0 /\ AllMarginsPositive =>
        /\ call.ret.breakeven_units = I(0)
        /\ call.ret.safety_margin_percent = I(100)

\* C10 (amended): with fixed costs 0 and every product's price above its
\* cost, break-even units are 0, and the safety margin is 100 percent when
\* some quantity is positive and 0 percent when every quantity is 0.
C10_ZeroFixedCosts ==
    Returned("calculate_breakeven_analysis") /\ fixed_costs = 0 /\ AllMarginsPositive =>
        /\ call.ret.breakeven_units = I(0)
        /\ call.ret.safety_margin_percent
               = IF TotalQuantity(products_data) > 0 THEN I(100) ELSE I(0)

\* two profitable products, only one of them sold, and no fixed costs
C10_Witness ==
    /\ Returned("calculate_breakeven_analysis") /\ fixed_costs = 0 /\ AllMarginsPositive
    /\ Len(products_data) = 2
    /\ products_data[1].quantity = 0 /\ products_data[2].quantity > 0
    /\ call.ret.safety_margin_percent = I(100)

\* the value operatingLeverage() is said to have for a product list and
\* fixed costs: +inf when the net profit is zero, the quotient otherwise
LeverageOf(ps, fc) ==
    IF TotalContribution(ps) = fc THEN PosInf
    ELSE FDiv(I(TotalContribution(ps)), I(TotalContribution(ps) - fc))

\* C11 (as stated): for every analyzer, the empty one included,
\* calculate_operating_leverage returns +inf if and only if the total
\* contribution equals the fixed costs, and total contribution / (total
\* contribution - fixed costs) in every other case.
C11_LeverageEveryAnalyzer ==
    Returned("calculate_operating_leverage") =>
        /\ call.ret = LeverageOf(products_data, fixed_costs)
        /\ (call.ret = PosInf <=> TotalContribution(products_data) = fixed_costs)

\* C11 (amended): for every analyzer with at least one product,
\* calculate_operating_leverage returns +inf if and only if the total
\* contribution equals the fixed costs, and total contribution / (total
\* contribution - fixed costs) in every other case; for the analyzer with no
\* products it returns 0 whatever the fixed costs (zero included).
C11_Leverage ==
    Returned("calculate_operating_leverage") =>
        IF Len(products_data) = 0 THEN call.ret = I(0)
        ELSE /\ call.ret = LeverageOf(products_data, fixed_costs)
             /\ (call.ret = PosInf
                    <=> TotalContribution(products_data) = fixed_costs)

\* a product list whose contribution equals the positive fixed costs: the
\* leverage returned is +inf
C11_Witness ==
    /\ Returned("calculate_operating_leverage")
    /\ Len(products_data) > 0
    /\ fixed_costs > 0
    /\ TotalContribution(products_data) = fixed_costs
    /\ call.ret = PosInf

\* the sum of column c over the rows of a returned table
SumCol(rows, c) == SumInt([i \in 1..Len(rows) |-> rows[i][c]])

\* C12: the CVP report agrees with the other views of the same analyzer: its
\* totals are the column sums of the contribution analysis rows, net_profit is
\* total_contribution - fixed_costs, every field of the break-even analysis
\* appears in it with the same value, operating_leverage is what
\* calculate_operating_leverage returns, and contribution_margin_ratio is
\* total_contribution / total_revenue * 100 (0 when the revenue is 0); for
\* scenario 1 the totals are 2550, 1790 and 790 (here in tenths).
C12_CvpConsistent ==
    Returned("get_cost_volume_profit_analysis") =>
        LET rows == get_contribution_margin_analysis(analyzer).ret
            be == calculate_breakeven_analysis(analyzer).ret
            ol == calculate_operating_leverage(analyzer).ret
            r == call.ret
        IN  /\ \A k \in DOMAIN be : k \in DOMAIN r /\ r[k] = be[k]
            /\ Len(products_data) > 0 =>
                /\ r.total_revenue = SumCol(rows, "total_revenue")
                /\ r.total_variable_cost = SumCol(rows, "total_variable_cost")
                /\ r.total_contribution = SumCol(rows, "total_contribution")
                /\ r.fixed_costs = fixed_costs
                /\ r.net_profit = r.total_contribution - fixed_costs
                /\ DOMAIN be # {}
                /\ r.operating_leverage = ol
                /\ r.contribution_margin_ratio =
                       IF r.total_revenue = 0 THEN I(0)
                       ELSE FMul(FDiv(I(r.total_contribution), I(r.total_revenue)),
                                 I(100))
            /\ (products_data = Scenario1.products_data
                    /\ fixed_costs = Scenario1.fixed_costs) =>
                /\ r.total_revenue = 25500
                /\ r.total_contribution = 17900
                /\ r.net_profit = 7900

\* a CVP report of two products with zero revenue and a negative
\* contribution: the ratio takes its guarded value
C12_Witness ==
    /\ Returned("get_cost_volume_profit_analysis")
    /\ Len(products_data) = 2
    /\ call.ret.total_revenue = 0
    /\ call.ret.total_contribution < 0
    /\ call.ret.net_profit < 0
    /\ call.ret.contribution_margin_ratio = I(0)

\* row i comes before row j in the order: "margin desc", "margin asc" or
\* "contribution desc", rows of equal key in input order
Before(order, i, j) ==
    LET a == analyzer.df[i].contribution_margin_percent
        b == analyzer.df[j].contribution_margin_percent
        x == analyzer.df[i].total_contribution
        y == analyzer.df[j].total_contribution
    IN  CASE order = "margin desc" -> FGt(a, b) \/ (a = b /\ i < j)
          [] order = "margin asc" -> FLt(a, b) \/ (a = b /\ i < j)
          [] order = "contribution desc" -> x > y \/ (x = y /\ i < j)

\* list is the first Min(TopN, n) rows of the analyzer's table in the order:
\* every listed row comes before the rows listed after it and before every
\* row left out
IsSelection(list, order) ==
    LET n == Len(analyzer.df)
        m == Min(TopN, n)
        rec(i) == [name |-> analyzer.df[i].name,
                   contribution_margin_percent |->
                       analyzer.df[i].contribution_margin_percent,
                   total_contribution |-> analyzer.df[i].total_contribution]
    IN  /\ Len(list) = m
        /\ \E f \in [1..m -> 1..n] :
              /\ \A p \in 1..m : list[p] = rec(f[p])
              /\ \A p, q \in 1..m : p < q => Before(order, f[p], f[q])
              /\ \A p \in 1..m : \A j \in 1..n :
                    (\A q \in 1..m : f[q] # j) => Before(order, f[p], j)

\* C13: on n >= 1 products analyze_product_mix_optimization returns three
\* lists of exactly min(3, n) entries: the first min(3, n) products by
\* contribution_margin_percent descending, by contribution_margin_percent
\* ascending, and by total_contribution descending; among products of equal
\* key the one earlier in the input is selected and listed first.
C13_MixSelection ==
    (Returned("analyze_product_mix_optimization") /\ Len(products_data) >= 1) =>
        /\ DOMAIN call.ret = {"high_margin_products", "low_margin_products",
                              "high_contribution_products"}
        /\ IsSelection(call.ret.high_margin_products, "margin desc")
        /\ IsSelection(call.ret.low_margin_products, "margin asc")
        /\ IsSelection(call.ret.high_contribution_products, "contribution desc")

\* four products, the last three of equal margin and the first of a lower
\* one: the tie decides which product is left out of the high-margin list,
\* and the low-margin list starts with the first product
C13_Witness ==
    /\ Returned("analyze_product_mix_optimization")
    /\ Len(products_data) = 4
    /\ Len(call.ret.high_margin_products) = 3
    /\ call.ret.high_margin_products[1].name = "b"
    /\ call.ret.high_margin_products[3].name = "d"
    /\ call.ret.high_margin_products[1].contribution_margin_percent
           = call.ret.high_margin_products[3].contribution_margin_percent
    /\ call.ret.low_margin_products[1].name = "a"
    /\ call.ret.low_margin_products[3].name = "c"

\* the rows of the analyzer's table whose name is in names, in table order
Selected(names) ==
    SelectSeq(analyzer.df, LAMBDA r : \E i \in 1..Len(names) : names[i] = r.name)

\* C14: with at least one matching product calculate_combo_analysis returns,
\* over the selected products: original_price = sum of the prices,
\* discounted_price = original_price * (1 - d/100), total_cost = sum of the
\* costs, combo_margin = discounted_price - total_cost, combo_margin_percent
\* = combo_margin / discounted_price * 100 and 0 when the discounted price is
\* 0, avg_individual_margin_percent = mean of the products'
\* contribution_margin_percent, and margin_impact = combo_margin_percent -
\* avg_individual_margin_percent.
C14_ComboFormulas ==
    (Returned("calculate_combo_analysis")
        /\ Len(Selected(call.args.product_names)) > 0) =>
        LET sel == Selected(call.args.product_names)
            d == call.args.discount_percent
            P == SumInt([i \in 1..Len(sel) |-> sel[i].price])
            C == SumInt([i \in 1..Len(sel) |-> sel[i].cost])
            r == call.ret
            mean == FDiv(FSum([i \in 1..Len(sel) |->
                                  sel[i].contribution_margin_percent]),
                         I(Len(sel)))
        IN  /\ "error" \notin DOMAIN r
            /\ r.original_price = P
            /\ r.discounted_price = Norm(P * (100 - d), 100)
            /\ r.total_cost = C
            /\ r.combo_margin = Norm(P * (100 - d) - 100 * C, 100)
            /\ r.combo_margin_percent =
                   IF P * (100 - d) = 0 THEN I(0)
                   ELSE Norm((P * (100 - d) - 100 * C) * 100, P * (100 - d))
            /\ r.avg_individual_margin_percent = mean
            /\ r.margin_impact = FSub(r.combo_margin_percent, mean)

\* a combo of one of two products at half price: its margin is 0, 50 points
\* below the product's own margin
C14_Witness ==
    /\ Returned("calculate_combo_analysis")
    /\ Len(analyzer.df) = 2
    /\ Len(Selected(call.args.product_names)) = 1
    /\ call.args.discount_percent = 50
    /\ call.ret.original_price = 2
    /\ call.ret.discounted_price = I(1)
    /\ call.ret.total_cost = 1
    /\ call.ret.combo_margin_percent = I(0)
    /\ call.ret.margin_impact = I(0 - 50)

\* combo_margin_percent of a returned combo is a finite number n/d, d > 0
MarginAbove(x, t) == x.k = "fin" /\ x.n > t * x.d

\* C15: the viability label is a total function of combo_margin_percent with
\* fixed thresholds: viable exactly when it is above 15, review exactly when
\* it is above 5 and at most 15, not recommended exactly when it is at most 5
\* (15 is review, 5 is not recommended, a discount of 100 is not recommended);
\* prices summing to 20 and costs summing to 10 at discount 0 give 50, viable.
C15_ViabilityThresholds ==
    (Returned("calculate_combo_analysis") /\ HasKey(call.ret, "viability")) =>
        LET x == call.ret.combo_margin_percent
            label == call.ret.viability
        IN  /\ x.k = "fin"
            /\ label \in {"Viavel", "Revisar", "Nao recomendado"}
            /\ label = "Viavel" <=> MarginAbove(x, 15)
            /\ label = "Revisar" <=> (MarginAbove(x, 5) /\ ~MarginAbove(x, 15))
            /\ label = "Nao recomendado" <=> ~MarginAbove(x, 5)
            /\ x = I(15) => label = "Revisar"
            /\ x = I(5) => label = "Nao recomendado"
            /\ call.args.discount_percent = 100 => label = "Nao recomendado"
            /\ (call.ret.original_price = 20 /\ call.ret.total_cost = 10
                    /\ call.args.discount_percent = 0) =>
                   (x = I(50) /\ label = "Viavel")

\* a combo whose margin is exactly 15 percent
C15_Witness ==
    /\ Returned("calculate_combo_analysis")
    /\ HasKey(call.ret, "combo_margin_percent")
    /\ call.ret.combo_margin_percent = I(15)
    /\ call.ret.viability = "Revisar"

\* C16: in the contribution analysis contribution_rank is the rank of each
\* row by contribution_margin_percent descending with ties broken by input
\* order: the ranks are integers, the highest margin has rank 1, and rows of
\* equal margin are ranked by their position in the input.
C16_RankByInputOrder ==
    Returned("get_contribution_margin_analysis") =>
        \A i \in 1..Len(call.ret) :
            LET m(j) == call.ret[j].contribution_margin_percent
                ahead == {j \in 1..Len(call.ret) :
                             FGt(m(j), m(i)) \/ (m(j) = m(i) /\ j < i)}
            IN  call.ret[i].contribution_rank = I(1 + Cardinality(ahead))

\* the product records with the price of the products named name replaced
WithPrice(ps, name, new_price) ==
    [i \in 1..Len(ps) |->
        IF ps[i].name = name THEN [ps[i] EXCEPT !.price = new_price] ELSE ps[i]]

\* C17: for a product name that matches, simulate_price_changes returns the
\* net profit and contribution margin ratio of the analyzer's own CVP report
\* as current_*, those of an analyzer constructed from scratch over the
\* original records with that product's price replaced (same fixed costs) as
\* new_*, and profit_change = new_profit - current_profit, for every new
\* price >= 0, zero included.
C17_SimulationIsFreshAnalyzer ==
    (Returned("simulate_price_changes")
        /\ \E i \in 1..Len(products_data) :
              products_data[i].name = call.args.product_name) =>
        LET current == get_cost_volume_profit_analysis(analyzer).ret
            scratch == NewAnalyzer(WithPrice(products_data, call.args.product_name,
                                             call.args.new_price), fixed_costs)
            new == get_cost_volume_profit_analysis(scratch).ret
            r == call.ret
        IN  /\ DOMAIN r = {"current_profit", "new_profit", "profit_change",
                           "current_contribution_ratio", "new_contribution_ratio"}
            /\ r.current_profit = current.net_profit
            /\ r.current_contribution_ratio = current.contribution_margin_ratio
            /\ r.new_profit = new.net_profit
            /\ r.new_contribution_ratio = new.contribution_margin_ratio
            /\ r.profit_change = r.new_profit - r.current_profit

\* a sold product given away (new price 0): the profit falls and the new
\* contribution ratio takes its guarded value
C17_Witness ==
    /\ Returned("simulate_price_changes")
    /\ HasKey(call.ret, "new_profit")
    /\ call.args.new_price = 0
    /\ Len(products_data) = 1
    /\ products_data[1].cost > 0
    /\ call.ret.profit_change < 0
    /\ call.ret.current_contribution_ratio = I(50)
    /\ call.ret.new_contribution_ratio = I(0)

\* C18: every what-if simulation, the elasticity simulation included, works
\* on a copy: after it the caller's product records, and the record list the
\* analyzer was constructed from, hold the same price and quantity for every
\* product as before.
C18_SimulationsLeaveRecords ==
    [][(pc = "ready" /\ pc' = "returned"
            /\ call'.op \in {"simulate_price_changes", "elasticity_simulation"}) =>
          /\ products_data' = products_data
          /\ analyzer'.products_data = analyzer.products_data]_vars

PresentationPaths == {"leverage_metric", "leverage_legend", "generate_report"}

\* C19: every presentation path of the operating leverage (dashboard metric,
\* sensitivity legend, text report) special-cases the infinite value: with a
\* net profit of zero it shows the dedicated infinity display, never the
\* ordinary numeric formatting or a threshold branch.
C19_InfinitySpecialCased ==
    (pc = "returned" /\ call.op \in PresentationPaths
        /\ get_cost_volume_profit_analysis(analyzer).ret.net_profit = 0) =>
        call.ret = InfinityDisplay

\* C20: every analyzer construction of the presentation layers passes
\* exactly a product list and a fixed-cost number, so for a non-empty valid
\* product list the construction succeeds and the run reaches the result
\* section: no dashboard run ends in the constructor's TypeError.
C20_ConstructionSucceeds ==
    Len(products_data) > 0 => pc # "TypeError"

\* C21: for a non-empty product list whose total revenue (total contribution)
\* is zero the contribution analysis gives an empty result for
\* revenue_participation (contribution_participation), no row carrying an
\* undefined or infinite percentage; in every other case every participation
\* returned is a finite number.
C21_ParticipationDefined ==
    (Returned("get_contribution_margin_analysis") /\ Len(products_data) > 0) =>
        /\ \A i \in 1..Len(call.ret) :
              IF TotalRevenue(products_data) = 0
              THEN "revenue_participation" \notin DOMAIN call.ret[i]
              ELSE IsFinite(call.ret[i].revenue_participation)
        /\ \A i \in 1..Len(call.ret) :
              IF TotalContribution(products_data) = 0
              THEN "contribution_participation" \notin DOMAIN call.ret[i]
              ELSE IsFinite(call.ret[i].contribution_participation)

\* C22: the break-even point is the volume at which the contribution equals
\* the fixed costs: for every non-empty product list with a positive weighted
\* average contribution margin, breakeven_units *
\* weighted_avg_contribution_margin = fixed_costs, and breakeven_revenue -
\* breakeven_units * (weighted_avg_price - weighted_avg_contribution_margin)
\* = fixed_costs.
C22_BreakevenCoversFixedCosts ==
    (Returned("calculate_breakeven_analysis") /\ Len(products_data) > 0
        /\ TotalQuantity(products_data) > 0
        /\ TotalContribution(products_data) > 0) =>
        LET r == call.ret
            margin == Norm(TotalContribution(products_data),
                           TotalQuantity(products_data))
            price == Norm(TotalRevenue(products_data), TotalQuantity(products_data))
        IN  /\ r.weighted_avg_contribution_margin = margin
            /\ r.weighted_avg_price = price
            /\ FMul(r.breakeven_units, margin) = I(fixed_costs)
            /\ FSub(r.breakeven_revenue,
                    FMul(r.breakeven_units, FSub(price, margin))) = I(fixed_costs)

\* two products with a weighted margin of 1/2 and fixed costs of 1: the
\* break-even volume is 2 units
C22_Witness ==
    /\ Returned("calculate_breakeven_analysis")
    /\ Len(products_data) = 2
    /\ fixed_costs = 1
    /\ call.ret.weighted_avg_contribution_margin = Norm(1, 2)
    /\ call.ret.breakeven_units = I(2)
    /\ call.ret.breakeven_revenue = I(2)

\* C23: the sign of the safety margin tells the position relative to
\* break-even: for every non-empty product list with a positive total
\* quantity, safety_margin_percent and safety_margin_units are negative if
\* and only if the net profit (total contribution - fixed costs) is negative,
\* and zero if and only if it is zero, a zero or negative weighted
\* contribution margin included.
C23_SafetyMarginSign ==
    (Returned("calculate_breakeven_analysis") /\ Len(products_data) > 0
        /\ TotalQuantity(products_data) > 0) =>
        LET net_profit == TotalContribution(products_data) - fixed_costs
            r == call.ret
        IN  /\ FLt(r.safety_margin_percent, I(0)) <=> net_profit < 0
            /\ FLt(r.safety_margin_units, I(0)) <=> net_profit < 0
            /\ r.safety_margin_percent = I(0) <=> net_profit = 0
            /\ r.safety_margin_units = I(0) <=> net_profit = 0

\* the positions of the products named name
Matching(name) == {i \in 1..Len(products_data) : products_data[i].name = name}

\* C24: simulate_price_changes reprices every row of the given name (all
\* duplicates) and no other row, and leaves the cost and quantity of every
\* row alone, so profit_change is the sum over the matching rows of
\* (new_price - old price) * quantity, and 0 when the new price is the
\* current price of every matching row.
C24_AllDuplicatesRepriced ==
    (Returned("simulate_price_changes")
        /\ Matching(call.args.product_name) # {}) =>
        LET hit == Matching(call.args.product_name)
            new_price == call.args.new_price
            df_sim == Repriced(analyzer.df, hit, new_price)
            delta == [i \in 1..Len(products_data) |->
                         IF i \in hit
                         THEN (new_price - products_data[i].price)
                                  * products_data[i].quantity
                         ELSE 0]
        IN  /\ \A i \in 1..Len(df_sim) :
                  /\ i \in hit => df_sim[i].price = new_price
                  /\ i \notin hit => df_sim[i] = analyzer.df[i]
                  /\ df_sim[i].cost = products_data[i].cost
                  /\ df_sim[i].quantity = products_data[i].quantity
                  /\ df_sim[i].name = products_data[i].name
            /\ get_cost_volume_profit_analysis(
                   NewAnalyzer(df_sim, fixed_costs)).ret.total_variable_cost
                   = TotalVariableCost(products_data)
            /\ call.ret.profit_change = SumInt(delta)
            /\ (\A i \in hit : products_data[i].price = new_price) =>
                   call.ret.profit_change = 0

\* two sold products of the same name and of different prices, both repriced
C24_Witness ==
    /\ Returned("simulate_price_changes")
    /\ Len(products_data) = 2
    /\ Matching(call.args.product_name) = {1, 2}
    /\ products_data[1].price = 0
    /\ products_data[2].price = 1
    /\ products_data[1].quantity = 1
    /\ products_data[2].quantity = 2
    /\ call.args.new_price = 2
    /\ call.ret.profit_change = 4

\* the positions of the products whose name is in the list names
InCombo(names) ==
    {i \in 1..Len(products_data) :
        \E k \in 1..Len(names) : names[k] = products_data[i].name}

\* C25: calculate_combo_analysis ignores requested names that match no
\* product as long as one name matches: the numeric fields are computed over
\* exactly the rows whose name is in the list (every row of a duplicated
\* name), 'products' is the requested list unchanged, unmatched names
\* included, and no error is reported.
C25_UnmatchedNamesIgnored ==
    (Returned("calculate_combo_analysis")
        /\ InCombo(call.args.product_names) # {}) =>
        LET hit == InCombo(call.args.product_names)
            prices == [i \in 1..Len(products_data) |->
                          IF i \in hit THEN products_data[i].price ELSE 0]
            costs == [i \in 1..Len(products_data) |->
                         IF i \in hit THEN products_data[i].cost ELSE 0]
        IN  /\ "error" \notin DOMAIN call.ret
            /\ call.ret.products = call.args.product_names
            /\ call.ret.original_price = SumInt(prices)
            /\ call.ret.total_cost = SumInt(costs)
            /\ call.ret.discount_applied = call.args.discount_percent

\* a combo of "c", which no product has, and "a", which two products have
C25_Witness ==
    /\ Returned("calculate_combo_analysis")
    /\ Len(products_data) = 2
    /\ InCombo(call.args.product_names) = {1, 2}
    /\ products_data[1].name = "a"
    /\ products_data[2].name = "a"
    /\ call.args.product_names = <<"c", "a">>
    /\ call.ret.products = <<"c", "a">>
    /\ call.ret.original_price = 3

\* the upload of the file fails: it is not read, lacks a required column, or
\* a row does not convert
UploadFails(f) ==
    \/ ~f.reads
    \/ ~f.has_required_columns
    \/ \E i \in 1..Len(f.rows) : ~f.rows[i].converts

\* C26: the product list passed to the analyzer has one source: if
\* processing the uploaded file fails, no row of the file is in the list and
\* only the manually entered products are analysed; if it succeeds, only the
\* file's rows are.
C26_OneSourceOfProducts ==
    (pc = "new" /\ call.op = "collect_products"
        /\ call.args.uploaded_file # NoFile) =>
        LET f == call.args.uploaded_file IN
        IF UploadFails(f) THEN products_data = call.args.manual
        ELSE products_data = [i \in 1..Len(f.rows) |-> f.rows[i].product]

MaxQuantityOf(hit) ==
    CHOOSE q \in {products_data[i].quantity : i \in hit} :
        \A i \in hit : products_data[i].quantity <= q

\* C28: the advanced combo handler reports a currency delta: with maxQty the
\* largest quantity among the selected products, margin_impact = combo_margin
\* * maxQty - (sum of total_contribution of the selected products), which is
\* the new total contribution (current - individual + combo) minus the
\* current one; viability is "Viavel" exactly when margin_impact > 0 and "Nao
\* recomendado" otherwise, whatever combo_margin_percent is.
C28_CurrencyDelta ==
    Returned("advanced_combo_analysis") =>
        LET hit == InCombo(call.args.selected_products)
            d == call.args.combo_discount
            P == SumInt([i \in 1..Len(products_data) |->
                            IF i \in hit THEN products_data[i].price ELSE 0])
            C == SumInt([i \in 1..Len(products_data) |->
                            IF i \in hit THEN products_data[i].cost ELSE 0])
            individual == SumInt([i \in 1..Len(products_data) |->
                            IF i \in hit
                            THEN (products_data[i].price - products_data[i].cost)
                                     * products_data[i].quantity
                            ELSE 0])
            comboMargin == FDiv(I(P * (100 - d) - 100 * C), I(100))
            maxQty == MaxQuantityOf(hit)
            current == TotalContribution(products_data)
            delta == FSub(FMul(comboMargin, I(maxQty)), I(individual))
            r == call.ret
        IN  /\ hit # {}
            /\ r.combo_margin = comboMargin
            /\ r.estimated_quantity = maxQty
            /\ r.margin_impact = delta
            /\ r.margin_impact
                   = FSub(FAdd(FSub(I(current), I(individual)), r.combo_contribution),
                          I(current))
            /\ r.viability = "Viavel" <=> FGt(delta, I(0))
            /\ r.viability = "Nao recomendado" <=> ~FGt(delta, I(0))
            /\ session_state.combo_analysis = r

\* two products of price 2, costs 1 and 0, quantities 2 and 1, sold together
\* at half price: the combo margin is 50% (above the 15% of the core's
\* viability), the core's margin_impact is -25 percentage points, and the
\* currency delta is 1 * 2 - 4 = -2: not recommended
C28_Witness ==
    /\ Returned("advanced_combo_analysis")
    /\ Len(products_data) = 2
    /\ call.args.combo_discount = 50
    /\ Len(call.args.selected_products) = 2
    /\ call.ret.original_price = 4
    /\ call.ret.total_cost = 1
    /\ call.ret.estimated_quantity = 2
    /\ call.ret.combo_margin = I(1)
    /\ call.ret.combo_margin_percent = I(50)
    /\ call.ret.individual_contribution = 4
    /\ call.ret.margin_impact = I(0 - 2)
    /\ call.ret.viability = "Nao recomendado"
    /\ calculate_combo_analysis(analyzer, call.args.selected_products,
                                call.args.combo_discount).ret.margin_impact
           = I(0 - 25)

====
